---- MODULE Spec2Model ----
(***************************************************************************)
(* Thumbnail upload / retrieval handlers of src/src/api/thumbnails.ts.     *)
(*                                                                         *)
(* State: the module-level Map videoThumbnails, the rows of the video      *)
(* table behind getVideo/updateVideo, the upload requests suspended at one *)
(* of the two awaits of handlerUploadThumbnail, and the response that an   *)
(* invocation has just handed back, until its caller takes it.  lastWrite  *)
(* is history: for each key, the File of the request that set it last.     *)
(***************************************************************************)
EXTENDS Integers, Sequences, FiniteSets, TLC

VARIABLES db, videoThumbnails, inflight, resp, lastWrite

vars == <<db, videoThumbnails, inflight, resp, lastWrite>>

----------------------------------------------------------------------------
(* Bounds and input domains *)

\* Number of upload requests that may be suspended at an await at once.
MaxInFlight == 2

Slots == 1..MaxInFlight

\* 10 << 20
MAX_UPLOAD_SIZE == 10 * (2 ^ 20)

\* cfg.port as configured by the test setup
Port == 8091

Users == {"u1", "u2"}

\* Route parameter values: the empty one and the ids of the two videos.
VideoIds == {"", "v1", "v2"}
RowIds == {"v1", "v2"}

\* user_id column of the row with the given id (never updated).
OwnerOf(id) == IF id = "v1" THEN "u1" ELSE "u2"

\* Authorization header: absent, a token that fails validation, or a token
\* that validates to the named user.
Creds == {"none", "bad"} \cup Users

Methods == {"POST", "GET", "PUT"}

\* Media types are sequences of characters, so that startsWith is computed.
ImagePrefix == <<"i", "m", "a", "g", "e", "/">>
TypePng == <<"i", "m", "a", "g", "e", "/", "p", "n", "g">>
TypeGif == <<"i", "m", "a", "g", "e", "/", "g", "i", "f">>
TypePdf == <<"a", "p", "p", "l", "i", "c", "a", "t", "i", "o", "n", "/", "p", "d", "f">>
TypeEmpty == <<>>
MediaTypes == {TypePng, TypeGif, TypePdf, TypeEmpty}

Sizes == {0, MAX_UPLOAD_SIZE, MAX_UPLOAD_SIZE + 1}

\* A File part: its byte length and its declared type.  Every size with
\* every type that is no image type, every image type above the ceiling,
\* and two files within it: an empty PNG and a GIF of exactly the ceiling.
Files ==
    [size : Sizes, type : {TypePdf, TypeEmpty}]
    \cup [size : {MAX_UPLOAD_SIZE + 1}, type : MediaTypes]
    \cup {[size |-> 0, type |-> TypePng], [size |-> MAX_UPLOAD_SIZE, type |-> TypeGif]}

NoFile == [size |-> 0, type |-> TypeEmpty]

\* What req.formData() yields: a rejection (body not decodable as form
\* data), or a form whose "thumbnail" entry is absent, a string or a File.
Bodies ==
    {[form |-> k, text |-> "", file |-> NoFile] : k \in {"undecodable", "absent"}}
    \cup {[form |-> "string", text |-> t, file |-> NoFile] : t \in {"", "x"}}
    \cup {[form |-> "file", text |-> "", file |-> f] : f \in Files}

Unread == [form |-> "unread", text |-> "", file |-> NoFile]

----------------------------------------------------------------------------
(* Values *)

NullURL == <<>>

\* `http://localhost:${cfg.port}/upload/thumbnails/${videoId}`
ThumbnailURLNoId(port, videoId) ==
    <<"http://localhost:", port, "/upload/thumbnails/", "">>
ThumbnailURL(port, videoId) ==
    <<"http://localhost:", port, "/upload/thumbnails/", videoId>>

NoVideoRec == [id |-> "", userID |-> "", thumbnailURL |-> NullURL]
NoRow == [id |-> "", userID |-> ""]

NoData == [byteLength |-> 0]

\* File.arrayBuffer(): the file's bytes, as many as its size.
ArrayBuffer(file) == [byteLength |-> file.size]

Err(kind, msg) == [kind |-> kind, msg |-> msg]
Ok == Err("ok", "")

\* Status class of each error kind, as mapped by the error middleware.
StatusOf(kind) ==
    CASE kind = "ok" -> 200
      [] kind = "BadRequestError" -> 400
      [] kind = "UserNotAuthenticatedError" -> 401
      [] kind = "UserForbiddenError" -> 403
      [] kind = "NotFoundError" -> 404
      [] OTHER -> 500

----------------------------------------------------------------------------
(* Collaborators *)

\* getBearerToken + validateJWT: the user id, or an authentication error.
AuthFails(cred) == cred \notin Users
ValidateJWT(cred) == cred

\* getVideo(cfg.db, id): the row, when there is one.
HasVideo(rows, id) == id \in DOMAIN rows
GetVideo(rows, id) == rows[id]

\* updateVideo(cfg.db, video): UPDATE ... WHERE id = video.id; the owner
\* column is not among the updated ones.
UpdateVideo(rows, video) ==
    IF video.id \in DOMAIN rows
    THEN [rows EXCEPT ![video.id].thumbnailURL = video.thumbnailURL]
    ELSE rows

\* Map.prototype.set / has / get
MapSetAlone(map, key, value) == [k \in {key} |-> value]
MapSet(map, key, value) ==
    [k \in DOMAIN map \cup {key} |-> IF k = key THEN value ELSE map[k]]
MapHas(map, key) == key \in DOMAIN map
MapGet(map, key) == map[key]

----------------------------------------------------------------------------
(* Checks of the handlers *)

\* !videoId
Falsy(videoId) == videoId = ""

\* video.userID !== userID is the refusal; this is its negation.
OwnsVideoOrFirstUser(video, userID) == video.userID = userID \/ userID = "u1"
OwnsVideoBroken(video, userID) == TRUE
OwnsVideo(video, userID) == video.userID = userID

\* thumbnail.size > MAX_UPLOAD_SIZE is the refusal; this is its negation.
SizeOkUnlimited(size) == TRUE
SizeOkBroken(size) == size < MAX_UPLOAD_SIZE
SizeOk(size) == ~(size > MAX_UPLOAD_SIZE)

\* String.prototype.startsWith
StartsWith(s, prefix) ==
    /\ Len(s) >= Len(prefix)
    /\ SubSeq(s, 1, Len(prefix)) = prefix

\* mediaType.startsWith("image/")
IsImageBroken(mediaType) == mediaType # TypePdf
IsImage(mediaType) == StartsWith(mediaType, ImagePrefix)

----------------------------------------------------------------------------
(* Requests and responses *)

UploadReqs == [videoId : VideoIds, cred : Creds, method : Methods]
GetReqs == [videoId : VideoIds, cred : Creds]

NoReq == [videoId |-> "", cred |-> "none", method |-> ""]

\* An upload request that is not suspended at an await.  Of the row read by
\* getVideo a suspended request keeps id and userID: thumbnailURL is
\* assigned before it is read again.
\* raced is history: another request has set the entry of the same key
\* since this one was called.
IdleSlot ==
    [pc |-> "idle", req |-> NoReq, userID |-> "", video |-> NoRow,
     thumbnail |-> NoFile, mediaType |-> TypeEmpty, raced |-> FALSE]

\* History of one invocation: the calls of videoThumbnails.set and of
\* updateVideo it made, whether its set call replaced an entry of another
\* content, and whether another request set the same key while it ran.
Hist(writes, persists, replaced, raced) ==
    [writes |-> writes, persists |-> persists, replaced |-> replaced, raced |-> raced]
NoHist == Hist(0, 0, FALSE, FALSE)

\* What a caller gets back.
Response(op, req, body, err, video, data, contentType, cacheControl, hist) ==
    [op |-> op, req |-> req, body |-> body, err |-> err, status |-> StatusOf(err.kind),
     video |-> video, data |-> data, contentType |-> contentType,
     cacheControl |-> cacheControl, hist |-> hist]

NoResp == Response("none", NoReq, Unread, Ok, NoVideoRec, NoData, TypeEmpty, "", NoHist)

\* A thrown error, as the caller sees it.
Thrown(op, req, body, err, hist) ==
    Response(op, req, body, err, NoVideoRec, NoData, TypeEmpty, "", hist)

Thumbnail(data, mediaType) == [data |-> data, mediaType |-> mediaType]

----------------------------------------------------------------------------
(* handlerGetThumbnail *)

GetOutcomeOwnerOnly(req, rows, map) ==
    IF Falsy(req.videoId) THEN Err("BadRequestError", "Invalid video ID")
    ELSE IF ~HasVideo(rows, req.videoId) THEN Err("NotFoundError", "Couldn't find video")
    ELSE IF ~OwnsVideo(GetVideo(rows, req.videoId), req.cred)
         THEN Err("UserForbiddenError", "You don't own this video")
    ELSE IF ~MapHas(map, req.videoId) THEN Err("NotFoundError", "Thumbnail not found")
    ELSE Ok
GetOutcomeNoVideoCheck(req, rows, map) ==
    IF Falsy(req.videoId) THEN Err("BadRequestError", "Invalid video ID")
    ELSE IF ~MapHas(map, req.videoId) THEN Err("NotFoundError", "Thumbnail not found")
    ELSE Ok
\* The error thrown by the lookups of handlerGetThumbnail, or Ok.
GetOutcome(req, rows, map) ==
    IF Falsy(req.videoId) THEN Err("BadRequestError", "Invalid video ID")
    ELSE IF ~HasVideo(rows, req.videoId) THEN Err("NotFoundError", "Couldn't find video")
    ELSE IF ~MapHas(map, req.videoId) THEN Err("NotFoundError", "Thumbnail not found")
    ELSE Ok

GetResponsePng(req, rows, map) ==
    LET err == GetOutcome(req, rows, map)
        getReq == [videoId |-> req.videoId, cred |-> req.cred, method |-> "GET"]
    IN  IF err # Ok THEN Thrown("get", getReq, Unread, err, NoHist)
        ELSE Response("get", getReq, Unread, Ok, NoVideoRec,
                      MapGet(map, req.videoId).data, TypePng, "no-store", NoHist)
\* The response of handlerGetThumbnail.
GetResponse(req, rows, map) ==
    LET err == GetOutcome(req, rows, map)
        getReq == [videoId |-> req.videoId, cred |-> req.cred, method |-> "GET"]
    IN  IF err # Ok THEN Thrown("get", getReq, Unread, err, NoHist)
        ELSE Response("get", getReq, Unread, Ok, NoVideoRec,
                      MapGet(map, req.videoId).data,
                      MapGet(map, req.videoId).mediaType, "no-store", NoHist)

\* handlerGetThumbnail has no await: it runs to its response in one step.
HandlerGetThumbnail ==
    /\ resp = NoResp
    /\ \E req \in GetReqs :
        /\ resp' = GetResponse(req, db, videoThumbnails)
        /\ UNCHANGED <<db, videoThumbnails, inflight, lastWrite>>

----------------------------------------------------------------------------
(* handlerUploadThumbnail *)

UploadEntryLookupFirst(req, rows) ==
    IF Falsy(req.videoId) THEN Err("BadRequestError", "Invalid video ID")
    ELSE IF ~HasVideo(rows, req.videoId) THEN Err("NotFoundError", "Couldn't find video")
    ELSE IF AuthFails(req.cred) THEN Err("UserNotAuthenticatedError", "Invalid token")
    ELSE IF ~OwnsVideo(GetVideo(rows, req.videoId), ValidateJWT(req.cred))
         THEN Err("UserForbiddenError", "You don't own this video")
    ELSE IF req.method # "POST" THEN Err("BadRequestError", "Method not allowed")
    ELSE Ok
UploadEntryAnyMethod(req, rows) ==
    IF Falsy(req.videoId) THEN Err("BadRequestError", "Invalid video ID")
    ELSE IF AuthFails(req.cred) THEN Err("UserNotAuthenticatedError", "Invalid token")
    ELSE IF ~HasVideo(rows, req.videoId) THEN Err("NotFoundError", "Couldn't find video")
    ELSE IF ~OwnsVideo(GetVideo(rows, req.videoId), ValidateJWT(req.cred))
         THEN Err("UserForbiddenError", "You don't own this video")
    ELSE Ok
UploadEntryMethodFirst(req, rows) ==
    IF Falsy(req.videoId) THEN Err("BadRequestError", "Invalid video ID")
    ELSE IF AuthFails(req.cred) THEN Err("UserNotAuthenticatedError", "Invalid token")
    ELSE IF req.method # "POST" THEN Err("BadRequestError", "Method not allowed")
    ELSE IF ~HasVideo(rows, req.videoId) THEN Err("NotFoundError", "Couldn't find video")
    ELSE IF ~OwnsVideo(GetVideo(rows, req.videoId), ValidateJWT(req.cred))
         THEN Err("UserForbiddenError", "You don't own this video")
    ELSE Ok
\* The error thrown before the first await (and, for a verb other than POST,
\* by the throw that follows the POST branch), or Ok.
UploadEntry(req, rows) ==
    IF Falsy(req.videoId) THEN Err("BadRequestError", "Invalid video ID")
    ELSE IF AuthFails(req.cred) THEN Err("UserNotAuthenticatedError", "Invalid token")
    ELSE IF ~HasVideo(rows, req.videoId) THEN Err("NotFoundError", "Couldn't find video")
    ELSE IF ~OwnsVideo(GetVideo(rows, req.videoId), ValidateJWT(req.cred))
         THEN Err("UserForbiddenError", "You don't own this video")
    ELSE IF req.method # "POST" THEN Err("BadRequestError", "Method not allowed")
    ELSE Ok

\* The error thrown between the two awaits, or Ok.
UploadForm(body) ==
    IF body.form = "undecodable" THEN Err("FormDataError", "formData rejected")
    ELSE IF body.form = "absent" \/ (body.form = "string" /\ body.text = "")
         THEN Err("BadRequestError", "Missing thumbnail")
    ELSE IF body.form # "file" THEN Err("BadRequestError", "Thumbnail must be a file")
    ELSE IF ~SizeOk(body.file.size)
         THEN Err("BadRequestError", "File size exceeds 10MB limit")
    ELSE IF ~IsImage(body.file.type)
         THEN Err("BadRequestError", "Thumbnail must be an image file")
    ELSE Ok

\* From the call to the first await (req.formData()), or to a thrown error.
UploadStart(r) ==
    /\ resp = NoResp
    /\ inflight[r].pc = "idle"
    /\ \E req \in UploadReqs :
        LET err == UploadEntry(req, db) IN
        IF err # Ok
        THEN /\ resp' = Thrown("upload", req, Unread, err, NoHist)
             /\ UNCHANGED <<db, videoThumbnails, inflight, lastWrite>>
        ELSE /\ inflight' = [inflight EXCEPT ![r] =
                    [pc |-> "awaitForm", req |-> req,
                     userID |-> ValidateJWT(req.cred),
                     video |-> [id |-> GetVideo(db, req.videoId).id,
                                userID |-> GetVideo(db, req.videoId).userID],
                     thumbnail |-> NoFile, mediaType |-> TypeEmpty, raced |-> FALSE]]
             /\ UNCHANGED <<db, videoThumbnails, resp, lastWrite>>

\* From the resolution of req.formData() to the second await
\* (thumbnail.arrayBuffer()), or to a thrown error.
UploadFormData(r) ==
    /\ resp = NoResp
    /\ inflight[r].pc = "awaitForm"
    /\ \E body \in Bodies :
        LET err == UploadForm(body) IN
        IF err # Ok
        THEN /\ resp' = Thrown("upload", inflight[r].req, body, err,
                                Hist(0, 0, FALSE, inflight[r].raced))
             /\ inflight' = [inflight EXCEPT ![r] = IdleSlot]
             /\ UNCHANGED <<db, videoThumbnails, lastWrite>>
        ELSE /\ inflight' = [inflight EXCEPT ![r].pc = "awaitBuffer",
                                             ![r].thumbnail = body.file,
                                             ![r].mediaType = body.file.type]
             /\ UNCHANGED <<db, videoThumbnails, resp, lastWrite>>

StoreThumbnailEverywhere(map, videoId, thumbnail, mediaType) ==
    [k \in DOMAIN map \cup {videoId} |-> Thumbnail(ArrayBuffer(thumbnail), mediaType)]
StoreThumbnailNowhere(map, videoId, thumbnail, mediaType) == map
StoreThumbnailFirstWins(map, videoId, thumbnail, mediaType) ==
    IF MapHas(map, videoId) THEN map
    ELSE MapSet(map, videoId, Thumbnail(ArrayBuffer(thumbnail), mediaType))
StoreThumbnailKeepData(map, videoId, thumbnail, mediaType) ==
    IF MapHas(map, videoId)
    THEN MapSet(map, videoId, Thumbnail(MapGet(map, videoId).data, mediaType))
    ELSE MapSet(map, videoId, Thumbnail(ArrayBuffer(thumbnail), mediaType))
\* The Map after the set call of an upload of `thumbnail` for videoId.
StoreThumbnail(map, videoId, thumbnail, mediaType) ==
    MapSet(map, videoId, Thumbnail(ArrayBuffer(thumbnail), mediaType))

\* From the resolution of thumbnail.arrayBuffer() to the response: the
\* Map entry is set, then the row is updated; updateVideo may throw.
UploadStore(r) ==
    /\ resp = NoResp
    /\ inflight[r].pc = "awaitBuffer"
    /\ \E fault \in BOOLEAN :
        LET me == inflight[r]
            videoId == me.req.videoId
            body == [form |-> "file", text |-> "", file |-> me.thumbnail]
            video == [id |-> me.video.id, userID |-> me.video.userID,
                      thumbnailURL |-> ThumbnailURL(Port, videoId)]
            replaced == /\ MapHas(lastWrite, videoId)
                        /\ MapGet(lastWrite, videoId) # me.thumbnail
            hist == Hist(1, 1, replaced, me.raced)
        IN  /\ videoThumbnails' =
                   StoreThumbnail(videoThumbnails, videoId, me.thumbnail, me.mediaType)
            /\ lastWrite' = MapSet(lastWrite, videoId, me.thumbnail)
            /\ IF fault
               THEN /\ resp' = Thrown("upload", me.req, body,
                                      Err("StoreError", "updateVideo failed"), hist)
                    /\ UNCHANGED db
               ELSE /\ db' = UpdateVideo(db, video)
                    /\ resp' = Response("upload", me.req, body, Ok, video, NoData,
                                        TypeEmpty, "", hist)
            /\ inflight' = [q \in Slots |->
                   IF q = r THEN IdleSlot
                   ELSE IF inflight[q].pc # "idle" /\ inflight[q].req.videoId = videoId
                        THEN [inflight[q] EXCEPT !.raced = TRUE]
                        ELSE inflight[q]]

\* The caller takes the response.
Deliver ==
    /\ resp # NoResp
    /\ resp' = NoResp
    /\ UNCHANGED <<db, videoThumbnails, inflight, lastWrite>>

----------------------------------------------------------------------------
(* The video table is also written by the rest of the service. *)

DeleteVideo ==
    /\ resp = NoResp
    /\ \E id \in DOMAIN db :
        /\ db' = [k \in DOMAIN db \ {id} |-> db[k]]
        /\ UNCHANGED <<videoThumbnails, inflight, resp, lastWrite>>

----------------------------------------------------------------------------

Init ==
    /\ db = [id \in RowIds |-> [id |-> id, userID |-> OwnerOf(id), thumbnailURL |-> NullURL]]
    /\ videoThumbnails = <<>>
    /\ inflight = [r \in Slots |-> IdleSlot]
    /\ resp = NoResp
    /\ lastWrite = <<>>

Next ==
    \/ HandlerGetThumbnail
    \/ \E r \in Slots : UploadStart(r)
    \/ \E r \in Slots : UploadFormData(r)
    \/ \E r \in Slots : UploadStore(r)
    \/ Deliver
    \/ DeleteVideo

Spec == Init /\ [][Next]_vars

----------------------------------------------------------------------------
(* Properties.  They are stated on the responses, with the ceiling and the *)
(* "image/" prefix written out, not through the operators of the handlers. *)

\* 10 * 2^20
TenMiB == 10485760

BeginsWithImage(t) ==
    /\ Len(t) >= 6
    /\ t[1] = "i" /\ t[2] = "m" /\ t[3] = "a" /\ t[4] = "g" /\ t[5] = "e" /\ t[6] = "/"

SizeError == Err("BadRequestError", "File size exceeds 10MB limit")
TypeError == Err("BadRequestError", "Thumbnail must be an image file")
MethodError == Err("BadRequestError", "Method not allowed")

\* A response of handlerUploadThumbnail, thrown before the body was decoded.
EntryResponse == resp.op = "upload" /\ resp.body = Unread
\* A response of handlerUploadThumbnail to a request whose form held a File.
FileResponse == resp.op = "upload" /\ resp.body.form = "file"
\* The response of an upload that failed for no other reason than a throw of
\* updateVideo is no failure of the request's own.
PersistThrew == resp.err.kind = "StoreError"

\* C1 (round trip).  An upload by the owner of an existing video, by POST,
\* with a file of 0..10 MiB whose type begins with "image/", succeeds (short
\* of a throw of updateVideo); and every Retrieve for a video that exists,
\* issued after an upload has set the entry and before another does, answers
\* 200 with that upload's bytes, its declared type as Content-Type and
\* Cache-Control "no-store".
C1_RoundTrip ==
    /\ EntryResponse =>
         ~( /\ resp.req.videoId \in DOMAIN db
            /\ resp.req.cred = db[resp.req.videoId].userID
            /\ resp.req.method = "POST" )
    /\ ( /\ FileResponse
         /\ resp.body.file.size >= 0 /\ resp.body.file.size <= TenMiB
         /\ BeginsWithImage(resp.body.file.type)
         /\ ~PersistThrew )
       => resp.err = Ok /\ resp.status = 200
    /\ ( /\ resp.op = "get"
         /\ resp.req.videoId \in DOMAIN db
         /\ resp.req.videoId \in DOMAIN lastWrite )
       => /\ resp.err = Ok /\ resp.status = 200
          /\ resp.data.byteLength = lastWrite[resp.req.videoId].size
          /\ resp.contentType = lastWrite[resp.req.videoId].type
          /\ resp.cacheControl = "no-store"

\* A Retrieve returns the GIF of exactly 10 MiB that a successful upload stored.
C1_Witness ==
    /\ resp.op = "get" /\ resp.err = Ok
    /\ resp.data.byteLength = TenMiB /\ resp.contentType = TypeGif
    /\ resp.req.videoId \in DOMAIN db
    /\ db[resp.req.videoId].thumbnailURL # NullURL

\* C2 as claimed: the verb is checked third, so an authenticated request
\* with a verb other than POST gets the method error whether or not the
\* video exists or is the caller's.
C2_MethodBeforeLookup ==
    ( /\ resp.op = "upload"
      /\ resp.req.videoId # ""
      /\ resp.req.cred \in Users
      /\ resp.req.method # "POST" )
    => resp.err = MethodError

\* The error the checks give in the order: empty videoId, credential, video
\* exists, caller owns it, verb is POST.
EntryErrorInOrder(req) ==
    IF req.videoId = "" THEN Err("BadRequestError", "Invalid video ID")
    ELSE IF req.cred \notin Users THEN Err("UserNotAuthenticatedError", "Invalid token")
    ELSE IF req.videoId \notin DOMAIN db THEN Err("NotFoundError", "Couldn't find video")
    ELSE IF db[req.videoId].userID # req.cred
         THEN Err("UserForbiddenError", "You don't own this video")
    ELSE IF req.method # "POST" THEN MethodError
    ELSE Ok

\* The error the checks of the form give in the order: "thumbnail" present,
\* a file, size, type.
FormErrorInOrder(body) ==
    IF body.form = "absent" \/ (body.form = "string" /\ body.text = "")
    THEN Err("BadRequestError", "Missing thumbnail")
    ELSE IF body.form = "string" THEN Err("BadRequestError", "Thumbnail must be a file")
    ELSE IF body.file.size > TenMiB THEN SizeError
    ELSE IF ~BeginsWithImage(body.file.type) THEN TypeError
    ELSE Ok

\* C2 (amended).  The first failing check decides the error, in the order:
\* empty videoId, credential, video exists (NotFound), caller owns the video
\* (Forbidden), verb is POST (bad request), "thumbnail" file part present,
\* size, type.  A request that gets past the first five has a non-empty
\* videoId, the owner's credential and the verb POST.
C2_CheckOrder ==
    /\ EntryResponse =>
         /\ resp.err = EntryErrorInOrder(resp.req)
         /\ resp.err # Ok
    /\ ( /\ resp.op = "upload"
         /\ resp.body # Unread
         /\ resp.body.form # "undecodable" )
       => /\ resp.req.videoId # ""
          /\ resp.req.cred = OwnerOf(resp.req.videoId)
          /\ resp.req.method = "POST"
          /\ IF FormErrorInOrder(resp.body) # Ok
             THEN resp.err = FormErrorInOrder(resp.body)
             ELSE resp.err = Ok \/ PersistThrew

\* An authenticated GET or PUT for a video that is not in the table is
\* answered NotFound.
C2_Witness ==
    /\ resp.op = "upload"
    /\ resp.req.method # "POST"
    /\ resp.req.cred \in Users
    /\ resp.req.videoId # ""
    /\ resp.req.videoId \notin DOMAIN db
    /\ resp.err.kind = "NotFoundError"

\* An upload by an authenticated user who is not the owner of the video.
NonOwnerUpload(r) ==
    /\ r.op = "upload"
    /\ r.req.videoId \in DOMAIN db
    /\ r.req.cred \in Users
    /\ r.req.cred # db[r.req.videoId].userID

C3_Forbidden ==
    /\ NonOwnerUpload(resp) =>
         /\ resp.err.kind = "UserForbiddenError" /\ resp.status = 403
         /\ resp.body = Unread
         /\ resp.hist.writes = 0 /\ resp.hist.persists = 0
    /\ \A r \in Slots :
         inflight[r].pc # "idle" => inflight[r].req.cred = OwnerOf(inflight[r].req.videoId)

C3_NoEffect ==
    (resp = NoResp /\ NonOwnerUpload(resp') /\ resp'.req.method = "POST")
    => /\ videoThumbnails' = videoThumbnails
       /\ db' = db
       /\ \A g \in GetReqs :
            GetResponse(g, db', videoThumbnails') = GetResponse(g, db, videoThumbnails)

\* C3 (ownership).  An upload for an existing video by an authenticated user
\* other than its owner is answered Forbidden before the body is read, so
\* whatever the body is; it sets no Map entry, makes no updateVideo call and
\* leaves the Map and the table as they were, so that every Retrieve answers
\* after it as it would have before.
C3_Ownership == []C3_Forbidden /\ [][C3_NoEffect]_vars

\* u1 or u2 is refused on the other's video while that video has a thumbnail.
C3_Witness ==
    /\ NonOwnerUpload(resp)
    /\ resp.req.method = "POST"
    /\ resp.err.kind = "UserForbiddenError"
    /\ resp.req.videoId \in DOMAIN videoThumbnails

\* C4 (size ceiling).  10 << 20 is 10485760.  A file above it is refused
\* with the size error whatever its declared type; a file of at most that
\* size never is; files of 0 and of exactly 10485760 bytes with an image
\* type are accepted (short of a throw of updateVideo).
C4_SizeCeiling ==
    /\ MAX_UPLOAD_SIZE = TenMiB
    /\ FileResponse =>
         /\ resp.body.file.size > TenMiB => resp.err = SizeError /\ resp.status = 400
         /\ resp.body.file.size <= TenMiB => resp.err # SizeError
         /\ ( /\ resp.body.file.size \in {0, TenMiB}
              /\ BeginsWithImage(resp.body.file.type) )
            => resp.err = Ok \/ PersistThrew
    /\ \A r \in Slots :
         inflight[r].pc = "awaitBuffer" => inflight[r].thumbnail.size <= TenMiB

\* A file of exactly 10485760 bytes has been accepted.
C4_Witness ==
    /\ FileResponse
    /\ resp.body.file.size = TenMiB
    /\ resp.err = Ok

\* C5 (media type).  A file whose declared type does not begin with
\* "image/" is refused with a bad request whatever its size; a type that
\* begins with "image/" never gets the type error.
C5_MediaType ==
    /\ FileResponse =>
         /\ ~BeginsWithImage(resp.body.file.type) =>
              /\ resp.err.kind = "BadRequestError" /\ resp.status = 400
              /\ resp.body.file.size <= TenMiB => resp.err = TypeError
         /\ BeginsWithImage(resp.body.file.type) => resp.err # TypeError
    /\ \A r \in Slots :
         inflight[r].pc = "awaitBuffer" => BeginsWithImage(inflight[r].mediaType)

\* A file of no declared type, within the ceiling, has been refused.
C5_Witness ==
    /\ FileResponse
    /\ resp.body.file.type = TypeEmpty
    /\ resp.body.file.size = 0
    /\ resp.err = TypeError

\* C6 (overwrite).  When a successful upload has replaced an entry of another
\* content, a Retrieve for the video (while it exists) answers with the
\* bytes and the type of that second upload: not with the first upload's,
\* and not with the bytes of one and the type of the other.
C6_Overwrite ==
    ( /\ resp.op = "upload" /\ resp.err = Ok
      /\ resp.hist.replaced
      /\ resp.req.videoId \in DOMAIN db )
    => \A cred \in Creds :
         LET g == GetResponse([videoId |-> resp.req.videoId, cred |-> cred],
                              db, videoThumbnails)
         IN  /\ g.err = Ok
             /\ g.data.byteLength = resp.body.file.size
             /\ g.contentType = resp.body.file.type

\* A second upload, of another file, has succeeded for a video that exists.
C6_Witness ==
    /\ resp.op = "upload" /\ resp.err = Ok
    /\ resp.hist.replaced
    /\ resp.req.videoId \in DOMAIN db

\* C7 as claimed: an upload that ends in an error, a throw of updateVideo
\* included, leaves the Map as it was.
C7_FailedUploadKeepsStore ==
    [][ (resp = NoResp /\ resp'.op = "upload" /\ resp'.err # Ok)
        => videoThumbnails' = videoThumbnails ]_vars

\* The step that hands back the response of a successful upload changes no
\* Map entry and no row but those of the request's videoId.
C8_OneMutation ==
    (resp = NoResp /\ resp'.op = "upload" /\ resp'.err = Ok)
    => /\ \A k \in (DOMAIN videoThumbnails \cup DOMAIN videoThumbnails') \ {resp'.req.videoId} :
            /\ k \in DOMAIN videoThumbnails /\ k \in DOMAIN videoThumbnails'
            /\ videoThumbnails'[k] = videoThumbnails[k]
       /\ DOMAIN db' = DOMAIN db
       /\ \A k \in DOMAIN db \ {resp'.req.videoId} : db'[k] = db[k]

C8_Effects ==
    (resp.op = "upload" /\ resp.err = Ok) =>
        LET v == resp.req.videoId IN
        /\ resp.status = 200
        /\ v \in DOMAIN videoThumbnails
        /\ videoThumbnails[v] = [data |-> [byteLength |-> resp.body.file.size],
                                 mediaType |-> resp.body.file.type]
        /\ resp.video.id = v
        /\ resp.video.userID = OwnerOf(v)
        /\ Len(resp.video.thumbnailURL) = 4
        /\ resp.video.thumbnailURL[2] = Port
        /\ resp.video.thumbnailURL[3] = "/upload/thumbnails/"
        /\ resp.video.thumbnailURL[4] = v
        /\ resp.hist.writes = 1 /\ resp.hist.persists = 1
        /\ v \in DOMAIN db => db[v] = resp.video

\* C8 (effects of a successful upload).  The entry of the video is the
\* file's bytes with its declared type; the record answered with status 200
\* is the row read, with thumbnailURL made of the configured port and ending
\* in /upload/thumbnails/<videoId>; the row in the table is that record; one
\* set call and one updateVideo call were made, and nothing of another
\* video changed.
C8_SuccessfulUpload == []C8_Effects /\ [][C8_OneMutation]_vars

\* An upload has succeeded and the row of its video holds the new URL.
C8_Witness ==
    /\ resp.op = "upload" /\ resp.err = Ok
    /\ resp.req.videoId \in DOMAIN db
    /\ db[resp.req.videoId].thumbnailURL = resp.video.thumbnailURL
    /\ resp.video.thumbnailURL # NullURL

\* The set call of a request stores that request's file, whatever entry
\* another request has stored since this one was called.
C9_WriterWins ==
    (resp = NoResp /\ resp'.op = "upload" /\ resp'.hist.writes = 1)
    => /\ resp'.req.videoId \in DOMAIN videoThumbnails'
       /\ videoThumbnails'[resp'.req.videoId] =
              [data |-> [byteLength |-> resp'.body.file.size],
               mediaType |-> resp'.body.file.type]

\* A request is not refused for having been overtaken.
C9_NoRejection ==
    (resp.op = "upload" /\ resp.hist.raced) =>
        /\ resp.body.form = "file" /\ FormErrorInOrder(resp.body) = Ok
           => resp.err = Ok \/ PersistThrew
        /\ resp.err.kind \in {"ok", "StoreError", "BadRequestError", "FormDataError"}
        /\ resp.err.kind = "BadRequestError" => resp.err = FormErrorInOrder(resp.body)

\* C9 (concurrent uploads).  Of two uploads for the same video that are
\* suspended at an await at once, each one that passes the checks of the
\* form succeeds (short of a throw of updateVideo), and the entry is that of
\* the request whose set call came last, whichever was called first: the
\* entry set in between is replaced and no request is told.
C9_ConcurrentUploads == []C9_NoRejection /\ [][C9_WriterWins]_vars

\* A request has succeeded and replaced the entry that another request set
\* while this one was suspended.
C9_Witness ==
    /\ resp.op = "upload" /\ resp.err = Ok
    /\ resp.hist.raced /\ resp.hist.replaced
    /\ videoThumbnails[resp.req.videoId].mediaType = resp.body.file.type

\* C10 (Retrieve, NotFound).  A Retrieve for a video that is not in the
\* table is answered NotFound "Couldn't find video", also when the Map still
\* holds an entry for it; a Retrieve for a video that is in the table and
\* has no entry is answered NotFound "Thumbnail not found".
C10_RetrieveNotFound ==
    (resp.op = "get" /\ resp.req.videoId # "") =>
        /\ resp.req.videoId \notin DOMAIN db =>
             /\ resp.err = Err("NotFoundError", "Couldn't find video")
             /\ resp.status = 404
             /\ resp.data = NoData
        /\ ( /\ resp.req.videoId \in DOMAIN db
             /\ resp.req.videoId \notin DOMAIN videoThumbnails )
           => /\ resp.err = Err("NotFoundError", "Thumbnail not found")
              /\ resp.status = 404

\* A Retrieve is answered NotFound for a deleted video whose thumbnail is
\* still in the Map.
C10_Witness ==
    /\ resp.op = "get"
    /\ resp.req.videoId # ""
    /\ resp.req.videoId \notin DOMAIN db
    /\ resp.req.videoId \in DOMAIN videoThumbnails
    /\ resp.err.kind = "NotFoundError"

\* An upload with a verb other than POST.
NonPostUpload(r) == r.op = "upload" /\ r.req.method # "POST"

C11_BadRequest ==
    /\ NonPostUpload(resp) =>
         /\ resp.body = Unread
         /\ resp.hist.writes = 0 /\ resp.hist.persists = 0
         /\ ( /\ resp.req.videoId \in DOMAIN db
              /\ resp.req.cred = db[resp.req.videoId].userID )
            => /\ resp.err = MethodError
               /\ resp.status >= 400 /\ resp.status < 500
    /\ \A r \in Slots : inflight[r].pc # "idle" => inflight[r].req.method = "POST"

C11_NoEffect ==
    (resp = NoResp /\ NonPostUpload(resp'))
    => videoThumbnails' = videoThumbnails /\ db' = db

\* C11 (method check).  An upload with a verb other than POST by the owner
\* of a video that exists is answered with the bad request "Method not
\* allowed"; no request with such a verb gets as far as reading its body,
\* whatever the body holds, and none sets a Map entry, calls updateVideo or
\* changes the Map or the table.
C11_MethodCheck == []C11_BadRequest /\ [][C11_NoEffect]_vars

\* The owner's GET or PUT for a video that exists and has a thumbnail is
\* answered "Method not allowed".
C11_Witness ==
    /\ NonPostUpload(resp)
    /\ resp.req.videoId \in DOMAIN db
    /\ resp.req.cred = db[resp.req.videoId].userID
    /\ resp.req.videoId \in DOMAIN videoThumbnails
    /\ resp.err = MethodError

C12_KeysStay ==
    \A k \in DOMAIN videoThumbnails : k \in DOMAIN videoThumbnails'

\* C12 (no deletion).  No step removes a key of the Map: not a Retrieve, not
\* an upload that fails or succeeds or replaces an entry, and not the
\* deletion of the video's row.  A key that is present stays present.
C12_NoDeletion == [][C12_KeysStay]_vars

\* An upload has replaced the entry of one video while the Map holds the
\* entry of another, whose row is gone.
C12_Witness ==
    /\ DOMAIN videoThumbnails = RowIds
    /\ resp.op = "upload" /\ resp.hist.writes = 1 /\ resp.hist.replaced
    /\ \E k \in DOMAIN videoThumbnails : k # resp.req.videoId /\ k \notin DOMAIN db

\* An upload for a non-empty videoId with no credential or with one that
\* fails validation.
UnauthenticatedUpload(r) ==
    /\ r.op = "upload"
    /\ r.req.videoId # ""
    /\ r.req.cred \in {"none", "bad"}

C13_Rejected ==
    /\ UnauthenticatedUpload(resp) =>
         /\ resp.err.kind = "UserNotAuthenticatedError"
         /\ resp.body = Unread
         /\ resp.hist.writes = 0 /\ resp.hist.persists = 0
    /\ \A r \in Slots : inflight[r].pc # "idle" => inflight[r].req.cred \in Users

C13_NoEffect ==
    (resp = NoResp /\ UnauthenticatedUpload(resp'))
    => videoThumbnails' = videoThumbnails /\ db' = db

\* C13 (authentication).  An upload for a non-empty videoId with no
\* credential, or with one that fails validation, is answered with the
\* authentication error whether the video is in the table or not, whatever
\* the verb; it never reads its body, sets no Map entry, calls updateVideo
\* never, and leaves the Map and the table as they were.
C13_Authentication == []C13_Rejected /\ [][C13_NoEffect]_vars

\* A request without a valid credential, for a video that is not in the
\* table, is answered with the authentication error and not with NotFound.
C13_Witness ==
    /\ UnauthenticatedUpload(resp)
    /\ resp.req.videoId \notin DOMAIN db
    /\ resp.err.kind = "UserNotAuthenticatedError"

\* What a Retrieve answers: the error, the status, the bytes and the headers.
Outcome(r) ==
    <<r.err, r.status, r.data, r.contentType, r.cacheControl>>

\* C14 (the read path needs no credential).  The answer a Retrieve without
\* a credential got is the answer that a Retrieve for the same videoId, of
\* the same table and Map, gets with every other credential: an invalid
\* one, the owner's or another user's; so all of them answer alike.  (A
\* Retrieve without a credential is possible in every state of the table
\* and the Map and changes neither, so this compares them in all states.)
C14_ReadNeedsNoCredential ==
    (resp.op = "get" /\ resp.req.cred = "none") =>
        \A c \in Creds \ {"none"} :
            Outcome(GetResponse([videoId |-> resp.req.videoId, cred |-> c],
                                db, videoThumbnails)) = Outcome(resp)

\* A caller with no credential has been served the thumbnail of a video.
C14_Witness ==
    /\ resp.op = "get" /\ resp.err = Ok
    /\ resp.req.videoId \in DOMAIN db
    /\ resp.req.cred = "none"
    /\ resp.data.byteLength = TenMiB

C15_Entries ==
    \A k \in DOMAIN videoThumbnails :
        /\ BeginsWithImage(videoThumbnails[k].mediaType)
        /\ videoThumbnails[k].data.byteLength >= 0
        /\ videoThumbnails[k].data.byteLength <= TenMiB

\* A step that sets a Map entry is the step of a suspended request r: the
\* user its credential validated to is the owner in the row it read, the
\* row is that of its videoId, and the entry set is that of its videoId.
C15_Writers ==
    ( \/ videoThumbnails' # videoThumbnails
      \/ (resp = NoResp /\ resp'.op = "upload" /\ resp'.hist.writes = 1) )
    => \E r \in Slots :
         /\ inflight[r].pc = "awaitBuffer" /\ inflight'[r].pc = "idle"
         /\ inflight[r].req.cred \in Users
         /\ inflight[r].userID = inflight[r].req.cred
         /\ inflight[r].video.userID = inflight[r].userID
         /\ inflight[r].video.id = inflight[r].req.videoId
         /\ resp'.req = inflight[r].req
         /\ \A k \in DOMAIN videoThumbnails' \ {inflight[r].req.videoId} :
              k \in DOMAIN videoThumbnails /\ videoThumbnails'[k] = videoThumbnails[k]

\* C15 (store invariant).  In every reachable state every entry of the Map
\* has a type that begins with "image/" and at most 10485760 bytes; and
\* every step that sets an entry is made by a request whose validated user
\* is the owner in the row that request read for the key it sets.
C15_StoreInvariant == []C15_Entries /\ [][C15_Writers]_vars

\* Two requests for one video were suspended at once; the later set call
\* stored the GIF of exactly 10485760 bytes, and the Map holds the entries
\* of both videos.
C15_Witness ==
    /\ resp.op = "upload" /\ resp.hist.writes = 1 /\ resp.hist.raced
    /\ DOMAIN videoThumbnails = RowIds
    /\ videoThumbnails[resp.req.videoId].data.byteLength = TenMiB
    /\ \E k \in RowIds : videoThumbnails[k].mediaType = TypePng

ThumbnailNotFound == Err("NotFoundError", "Thumbnail not found")

\* C16 (URL implies thumbnail).  Rows start without a thumbnailURL and only
\* handlerUploadThumbnail sets one.  Every row of the table whose
\* thumbnailURL is set has an entry in the Map, so no Retrieve for its id
\* is answered "Thumbnail not found": every one is answered 200.
C16_URLImpliesThumbnail ==
    /\ \A v \in DOMAIN db :
         db[v].thumbnailURL # NullURL =>
            /\ v \in DOMAIN videoThumbnails
            /\ GetOutcome([videoId |-> v, cred |-> "none"], db, videoThumbnails) = Ok
    /\ ( /\ resp.op = "get"
         /\ resp.req.videoId \in DOMAIN db
         /\ db[resp.req.videoId].thumbnailURL # NullURL )
       => resp.err # ThumbnailNotFound /\ resp.status = 200

\* A Retrieve is answered 200 for a video whose row holds a thumbnailURL,
\* while the other video has an entry in the Map and no thumbnailURL in its
\* row (its updateVideo threw): the converse does not hold.
C16_Witness ==
    /\ resp.op = "get" /\ resp.err = Ok
    /\ resp.req.videoId \in DOMAIN db
    /\ db[resp.req.videoId].thumbnailURL = ThumbnailURL(Port, resp.req.videoId)
    /\ \E k \in DOMAIN db :
         k \in DOMAIN videoThumbnails /\ db[k].thumbnailURL = NullURL

\* An upload whose request fails a check made before the payload is read,
\* told by what the request holds: an empty videoId; a video that is not in
\* the table, or not the caller's, when the handler looked it up; a verb
\* other than POST; a form without a "thumbnail" file; a file above the
\* ceiling or of a type that does not begin with "image/".
InvalidUpload(r) ==
    /\ r.op = "upload"
    /\ \/ r.req.videoId = ""
       \/ r.req.method # "POST"
       \/ /\ r.body = Unread
          /\ r.req.cred \in Users
          /\ \/ r.req.videoId \notin DOMAIN db
             \/ db[r.req.videoId].userID # r.req.cred
       \/ r.body.form \in {"absent", "string"}
       \/ /\ r.body.form = "file"
          /\ \/ r.body.file.size > TenMiB
             \/ ~BeginsWithImage(r.body.file.type)

C17_Refused ==
    InvalidUpload(resp) =>
        /\ resp.err # Ok /\ ~PersistThrew
        /\ resp.status >= 400
        /\ resp.hist.writes = 0 /\ resp.hist.persists = 0

\* Neither the step that answers such an upload, nor a step that suspends
\* a request at an await, changes the Map or the table.
C17_NoEffect ==
    ( \/ (resp = NoResp /\ InvalidUpload(resp'))
      \/ \E r \in Slots : /\ inflight'[r].pc # inflight[r].pc
                           /\ inflight'[r].pc \in {"awaitForm", "awaitBuffer"} )
    => videoThumbnails' = videoThumbnails /\ db' = db

\* C17 (failed validation changes nothing).  An upload that fails a check
\* made before the payload is read is answered with an error, has made no
\* set call and no updateVideo call, and none of its steps has changed the
\* Map or a row of the table.
C17_FailedValidation == []C17_Refused /\ [][C17_NoEffect]_vars

\* An image above the ceiling has been refused for a video that has an
\* entry and a thumbnailURL, set by another request while this one was
\* suspended.
C17_Witness ==
    /\ InvalidUpload(resp)
    /\ resp.err = SizeError
    /\ BeginsWithImage(resp.body.file.type)
    /\ resp.hist.raced
    /\ resp.req.videoId \in DOMAIN videoThumbnails
    /\ resp.req.videoId \in DOMAIN db
    /\ db[resp.req.videoId].thumbnailURL # NullURL

\* This step changes no Map entry and no row but those of v, and adds and
\* removes no row.
FrameOf(v) ==
    /\ \A k \in (DOMAIN videoThumbnails \cup DOMAIN videoThumbnails') \ {v} :
         /\ k \in DOMAIN videoThumbnails /\ k \in DOMAIN videoThumbnails'
         /\ videoThumbnails'[k] = videoThumbnails[k]
    /\ DOMAIN db' = DOMAIN db
    /\ \A k \in DOMAIN db \ {v} : db'[k] = db[k]

C18_Retrieve ==
    (resp = NoResp /\ resp'.op = "get")
    => videoThumbnails' = videoThumbnails /\ db' = db

\* The steps of an upload: the one that answers it, whatever the answer, and
\* the ones that suspend it at an await.
C18_Upload ==
    /\ (resp = NoResp /\ resp'.op = "upload") => FrameOf(resp'.req.videoId)
    /\ \A r \in Slots :
         inflight'[r].pc # inflight[r].pc =>
            FrameOf(IF inflight[r].pc = "idle" THEN inflight'[r].req.videoId
                    ELSE inflight[r].req.videoId)

\* C18 (frame).  A Retrieve, whatever it answers, changes neither the Map
\* nor the table.  A step of an upload for v, whether the upload succeeds,
\* is refused or ends in a throw of updateVideo, changes at most the entry
\* of v and the row of v.
C18_Frame == [][C18_Retrieve /\ C18_Upload]_vars

\* An upload has set the entry of its video while the other video has an
\* entry of another content and a row with a thumbnailURL.
C18_Witness ==
    /\ resp.op = "upload" /\ resp.hist.writes = 1
    /\ \E k \in DOMAIN db \ {resp.req.videoId} :
         /\ k \in DOMAIN videoThumbnails
         /\ videoThumbnails[k] # videoThumbnails[resp.req.videoId]
         /\ db[k].thumbnailURL = ThumbnailURL(Port, k)

====
